---- MODULE Spec2Model ----
(***************************************************************************)
(* Plugin::PluginLoader<T> (include/Plugin/PluginLoader.h, POSIX branch)   *)
(* together with the factory generated by PLUGIN_FACTORY_DEFINITION        *)
(* (Plugin/PluginFactory.h) and the dynamic loader of the OS (dlopen,      *)
(* dlclose, dlsym, dlerror).                                               *)
(*                                                                         *)
(* Every member function is modelled statement by statement: a thread has  *)
(* a program counter named after the source line it is about to execute,   *)
(* a stack of return labels and the locals of the functions it is in.      *)
(***************************************************************************)
EXTENDS Integers, Sequences, FiniteSets, TLC

VARIABLES
    constructed,    \* per loader: the object is between constructor and destructor
    name_,          \* per loader: PluginLoader::name_
    plugin_,        \* per loader: PluginLoader::plugin_
    libHandle_,     \* per loader: PluginLoader::libHandle_
    errorMsg_,      \* per loader: PluginLoader::errorMsg_
    refCount,       \* OS: per library, successful dlopen minus successful dlclose
    dlerr,          \* OS: per thread, the text the next dlerror() returns
    globalInstance, \* per library: the plugin's static T* globalInstance
    heap,           \* addresses of the facade objects that are alive
    ndebug,         \* build: NDEBUG defined, assert() compiles to nothing
    serialized,     \* client: the threads call a loader's operations one at a time
    status,         \* process: "running", "abort" (assert failed) or "segv"
    pc,             \* per thread: the source line about to execute
    stack,          \* per thread: return labels of the calls in progress
    frame,          \* per thread: this, the locals and the return value
    pre,            \* per thread: the loader and its library as the operation found them
    trace,          \* per thread: OS and factory calls made by the operation so far
    prev,           \* per thread: the operation completed before the current one
    creates         \* per loader: create factory calls since its last load / unload

vars == <<constructed, name_, plugin_, libHandle_, errorMsg_, refCount, dlerr,
          globalInstance, heap, ndebug, serialized, status, pc, stack, frame, pre, trace, prev,
          creates>>

loaderVars == <<constructed, name_, plugin_, libHandle_, errorMsg_>>
osVars == <<refCount, dlerr>>
pluginVars == <<globalInstance, heap>>

----------------------------------------------------------------------------
(* Bounds *)

\* addresses operator new can return
MaxAddr == 2
\* outstanding dlopen references the OS grants per library
MaxRef == 2
\* the count of create factory calls of one load session stops here
MaxCalls == 2
\* calls of the factory functions made directly by one client
MaxLog == 6

----------------------------------------------------------------------------
(* Values *)

NULL == 0

Threads == {1, 2}
Loaders == {1, 2}
Addrs == 1..MaxAddr

PLUGIN_FACTORY_CREATE == "createPluginFacade"
PLUGIN_FACTORY_DESTROY == "destroyPluginFacade"

\* library files the caller can name; a handle is the index of the library
MyPluginLib == 1
BrokenLib == 2
CreateOnlyLib == 3
Handles == {MyPluginLib, BrokenLib, CreateOnlyLib}
Names == {"", "MyPlugin.so", "Broken.so", "CreateOnly.so", "NonExistingPath"}

\* the file a name resolves to, NULL when there is no such file
FileOf(name) ==
    CASE name = "MyPlugin.so" -> MyPluginLib
      [] name = "Broken.so" -> BrokenLib
      [] name = "CreateOnly.so" -> CreateOnlyLib
      [] OTHER -> NULL

\* symbols a library exports: MyPlugin.so is built with
\* PLUGIN_FACTORY_DECLARATION / PLUGIN_FACTORY_DEFINITION, Broken.so without,
\* CreateOnly.so defines both functions and exports createPluginFacade alone
Exports(h) ==
    CASE h = MyPluginLib -> {PLUGIN_FACTORY_CREATE, PLUGIN_FACTORY_DESTROY}
      [] h = CreateOnlyLib -> {PLUGIN_FACTORY_CREATE}
      [] OTHER -> {}

\* dlerror() texts; NoMsg is the empty string / a NULL char*
NoMsg == <<>>
OpenErr(name) == <<"dlopen", name>>
CloseErr == <<"dlclose", "handle">>
SymErr(fn) == <<"dlsym", fn>>
Msgs == {NoMsg, CloseErr} \cup {OpenErr(n) : n \in Names}
           \cup {SymErr(f) : f \in {PLUGIN_FACTORY_CREATE, PLUGIN_FACTORY_DESTROY}}

\* a resolved function: the library it lives in and its name; NoFunc is NULL
NoFunc == <<>>

\* thread state outside any member function
NoFrame == [op |-> "", self |-> NULL, arg |-> "", fn |-> "", func |-> NoFunc,
            res |-> FALSE, result |-> NULL, retB |-> FALSE, retP |-> NULL]
NoPre == [name |-> "", plugin |-> NULL, handle |-> NULL, msg |-> NoMsg,
          instance |-> NULL, refs |-> 0]
NoPrev == [op |-> "", self |-> NULL, arg |-> "", loaded |-> FALSE,
           retB |-> FALSE, retP |-> NULL, trip |-> 0]

----------------------------------------------------------------------------
(* PluginLoader's accessors *)

isLoaded(l) == libHandle_[l] # NULL

getErrorMsg(l) == errorMsg_[l]

getPluginName(l) == name_[l]

\* the three states of the loader
Unloaded(l) == ~isLoaded(l) /\ plugin_[l] = NULL
Loaded(l) == isLoaded(l) /\ plugin_[l] = NULL
Active(l) == isLoaded(l) /\ plugin_[l] # NULL

----------------------------------------------------------------------------
(* Control *)

Running(t) == status = "running"

At(t, label) == Running(t) /\ pc[t] = label

Goto(t, label) == pc' = [pc EXCEPT ![t] = label]

self(t) == frame[t].self

Log(t, event) == trace' = [trace EXCEPT ![t] = Append(@, event)]

\* call a member function: push the line to come back to
CallFrom(t, label, back) ==
    /\ pc' = [pc EXCEPT ![t] = label]
    /\ stack' = [stack EXCEPT ![t] = <<back>> \o @]

\* return from a member function: to the caller's line, or out of the
\* operation when the caller is the client of the loader
Return(t) ==
    IF stack[t] = <<>>
    THEN /\ pc' = [pc EXCEPT ![t] = "done"]
         /\ UNCHANGED stack
    ELSE /\ pc' = [pc EXCEPT ![t] = Head(stack[t])]
         /\ stack' = [stack EXCEPT ![t] = Tail(@)]

\* the frame a function leaves to its caller: its locals are gone, the value
\* it returns is a bool (retB) or a T* (retP)
Result(t, b, p) ==
    [NoFrame EXCEPT !.op = frame[t].op, !.self = frame[t].self, !.retB = b, !.retP = p]

\* the process ends: a failed assert() aborts, a call through NULL faults
Crash(how) == status' = how

----------------------------------------------------------------------------
(* Initial state: loader 1 has just been constructed with some name *)

Init ==
    /\ serialized = TRUE
    /\ constructed = [l \in Loaders |-> l = 1]
    /\ \E n \in Names : name_ = [l \in Loaders |-> IF l = 1 THEN n ELSE ""]
    /\ plugin_ = [l \in Loaders |-> NULL]
    /\ libHandle_ = [l \in Loaders |-> NULL]
    /\ errorMsg_ = [l \in Loaders |-> NoMsg]
    /\ refCount = [h \in Handles |-> 0]
    /\ dlerr = [t \in Threads |-> NoMsg]
    /\ globalInstance = [h \in Handles |-> NULL]
    /\ heap = {}
    /\ ndebug \in BOOLEAN
    /\ status = "running"
    /\ pc = [t \in Threads |-> "idle"]
    /\ stack = [t \in Threads |-> <<>>]
    /\ frame = [t \in Threads |-> NoFrame]
    /\ pre = [t \in Threads |-> NoPre]
    /\ trace = [t \in Threads |-> <<>>]
    /\ prev = [t \in Threads |-> NoPrev]
    /\ creates = [l \in Loaders |-> 0]

----------------------------------------------------------------------------
(* The client: begins an operation on a loader, and takes its result *)

\* the members of loader l, and globalInstance and the reference count of
\* the library it has mapped
Snapshot(l) == [name |-> name_[l], plugin |-> plugin_[l],
                handle |-> libHandle_[l], msg |-> errorMsg_[l],
                instance |-> IF libHandle_[l] = NULL THEN NULL
                             ELSE globalInstance[libHandle_[l]],
                refs |-> IF libHandle_[l] = NULL THEN 0 ELSE refCount[libHandle_[l]]]

\* how far the operations completed by thread t, the one returning now
\* included, are into load() = true, getPluginInstance() # NULL,
\* unload() = true, load() = true on one loader with nothing in between
Trip(t) ==
    LET k == IF prev[t].self = frame[t].self THEN prev[t].trip ELSE 0
    IN  CASE frame[t].op = "load" /\ frame[t].retB -> IF k = 3 THEN 4 ELSE 1
          [] frame[t].op = "getPluginInstance" /\ frame[t].retP # NULL ->
                 IF k \in {1, 4} THEN 2 ELSE 0
          [] frame[t].op = "unload" /\ frame[t].retB -> IF k = 2 THEN 3 ELSE 0
          [] OTHER -> 0

\* a client that enters while another thread's operation is in progress
Enter_noWait(t, l, op, label) ==
    /\ At(t, "idle")
    /\ constructed[l]
    /\ pc' = [pc EXCEPT ![t] = label]
    /\ frame' = [frame EXCEPT ![t] = [NoFrame EXCEPT !.op = op, !.self = l]]
    /\ pre' = [pre EXCEPT ![t] = Snapshot(l)]
    /\ trace' = [trace EXCEPT ![t] = <<>>]
    /\ UNCHANGED <<loaderVars, osVars, pluginVars, ndebug, serialized, status, stack, prev, creates>>

\* thread t enters member function op of loader l at its first line; clients
\* that serialize wait until no operation is in progress
Enter(t, l, op, label) ==
    /\ At(t, "idle")
    /\ serialized => \A u \in Threads : pc[u] = "idle"
    /\ constructed[l]
    /\ pc' = [pc EXCEPT ![t] = label]
    /\ frame' = [frame EXCEPT ![t] = [NoFrame EXCEPT !.op = op, !.self = l]]
    /\ pre' = [pre EXCEPT ![t] = Snapshot(l)]
    /\ trace' = [trace EXCEPT ![t] = <<>>]
    /\ UNCHANGED <<loaderVars, osVars, pluginVars, ndebug, serialized, status, stack, prev, creates>>

CallLoad(t, l) == Enter(t, l, "load", "load_382")

CallUnload(t, l) == Enter(t, l, "unload", "unload_397")

CallGetPluginInstance(t, l) == Enter(t, l, "getPluginInstance", "getPluginInstance_429")

CallDestructor(t, l) == Enter(t, l, "~PluginLoader", "dtor_371")

\* the client has the result; the thread is free for the next operation
Resume(t) ==
    /\ At(t, "done")
    /\ pc' = [pc EXCEPT ![t] = "idle"]
    /\ prev' = [prev EXCEPT ![t] = [op |-> frame[t].op, self |-> frame[t].self,
                                    arg |-> frame[t].arg,
                                    loaded |-> (pre[t].handle # NULL),
                                    retB |-> frame[t].retB, retP |-> frame[t].retP,
                                    trip |-> Trip(t)]]
    /\ frame' = [frame EXCEPT ![t] = NoFrame]
    /\ pre' = [pre EXCEPT ![t] = NoPre]
    /\ trace' = [trace EXCEPT ![t] = <<>>]
    /\ UNCHANGED <<loaderVars, osVars, pluginVars, ndebug, serialized, status, stack, creates>>

----------------------------------------------------------------------------
(* PluginLoader(const std::string& name), setPluginName *)

\* Construct without the initializer libHandle_(0): the member keeps the
\* value the storage held
Construct_keepsHandle(t, l, n) ==
    /\ At(t, "idle")
    /\ ~constructed[l]
    /\ constructed' = [constructed EXCEPT ![l] = TRUE]
    /\ name_' = [name_ EXCEPT ![l] = n]
    /\ plugin_' = [plugin_ EXCEPT ![l] = NULL]
    /\ errorMsg_' = [errorMsg_ EXCEPT ![l] = NoMsg]
    /\ pc' = [pc EXCEPT ![t] = "done"]
    /\ frame' = [frame EXCEPT ![t] = [NoFrame EXCEPT !.op = "PluginLoader", !.self = l,
                                                     !.arg = n]]
    /\ pre' = [pre EXCEPT ![t] = NoPre]
    /\ trace' = [trace EXCEPT ![t] = <<>>]
    /\ creates' = [creates EXCEPT ![l] = 0]
    /\ UNCHANGED <<libHandle_, osVars, pluginVars, ndebug, serialized, status, stack, prev>>

Construct(t, l, n) ==
    /\ At(t, "idle")
    /\ ~constructed[l]
    /\ constructed' = [constructed EXCEPT ![l] = TRUE]
    /\ name_' = [name_ EXCEPT ![l] = n]
    /\ plugin_' = [plugin_ EXCEPT ![l] = NULL]
    /\ libHandle_' = [libHandle_ EXCEPT ![l] = NULL]
    /\ errorMsg_' = [errorMsg_ EXCEPT ![l] = NoMsg]
    /\ pc' = [pc EXCEPT ![t] = "done"]
    /\ frame' = [frame EXCEPT ![t] = [NoFrame EXCEPT !.op = "PluginLoader", !.self = l,
                                                     !.arg = n]]
    /\ pre' = [pre EXCEPT ![t] = NoPre]
    /\ trace' = [trace EXCEPT ![t] = <<>>]
    /\ creates' = [creates EXCEPT ![l] = 0]
    /\ UNCHANGED <<osVars, pluginVars, ndebug, serialized, status, stack, prev>>

\* setPluginName that also forgets the library handle
setPluginName_dropsHandle(t, l, n) ==
    /\ At(t, "idle")
    /\ constructed[l]
    /\ name_' = [name_ EXCEPT ![l] = n]
    /\ libHandle_' = [libHandle_ EXCEPT ![l] = NULL]
    /\ pc' = [pc EXCEPT ![t] = "done"]
    /\ frame' = [frame EXCEPT ![t] = [NoFrame EXCEPT !.op = "setPluginName", !.self = l,
                                                     !.arg = n]]
    /\ pre' = [pre EXCEPT ![t] = Snapshot(l)]
    /\ trace' = [trace EXCEPT ![t] = <<>>]
    /\ UNCHANGED <<constructed, plugin_, errorMsg_, osVars, pluginVars,
                   ndebug, serialized, status, stack, prev, creates>>

setPluginName(t, l, n) ==
    /\ At(t, "idle")
    /\ constructed[l]
    /\ name_' = [name_ EXCEPT ![l] = n]
    /\ pc' = [pc EXCEPT ![t] = "done"]
    /\ frame' = [frame EXCEPT ![t] = [NoFrame EXCEPT !.op = "setPluginName", !.self = l,
                                                     !.arg = n]]
    /\ pre' = [pre EXCEPT ![t] = Snapshot(l)]
    /\ trace' = [trace EXCEPT ![t] = <<>>]
    /\ UNCHANGED <<constructed, plugin_, libHandle_, errorMsg_, osVars, pluginVars,
                   ndebug, serialized, status, stack, prev, creates>>

----------------------------------------------------------------------------
(* The OS loader: dlopen, dlclose, dlsym, dlerror *)

\* dlopen(name, RTLD_LAZY) may succeed when the file exists (and the bound on
\* references is not reached); it may always fail. The value is the handle.
CanOpen(name) == FileOf(name) # NULL /\ refCount[FileOf(name)] < MaxRef

dlopenValue(name, ok) == IF ok THEN FileOf(name) ELSE NULL

\* a library mapped for the first time starts with globalInstance = NULL
dlopenEffect(t, name, ok) ==
    /\ refCount' = IF ok THEN [refCount EXCEPT ![FileOf(name)] = @ + 1] ELSE refCount
    /\ dlerr' = [dlerr EXCEPT ![t] = IF ok THEN NoMsg ELSE OpenErr(name)]
    /\ globalInstance' = IF ok /\ refCount[FileOf(name)] = 0
                         THEN [globalInstance EXCEPT ![FileOf(name)] = NULL]
                         ELSE globalInstance

\* dlclose(h) may succeed on a handle that is open; it may always fail
CanClose(h) == h \in Handles /\ refCount[h] > 0

\* the library is unmapped with its last reference, and its statics with it
dlcloseEffect(t, h, ok) ==
    /\ refCount' = IF ok THEN [refCount EXCEPT ![h] = @ - 1] ELSE refCount
    /\ dlerr' = [dlerr EXCEPT ![t] = IF ok THEN NoMsg ELSE CloseErr]
    /\ globalInstance' = IF ok /\ refCount[h] = 1
                         THEN [globalInstance EXCEPT ![h] = NULL]
                         ELSE globalInstance

\* dlsym(h, fn): the address of fn in library h, NULL when h does not export it
dlsymValue(h, fn) ==
    IF h \in Handles /\ refCount[h] > 0 /\ fn \in Exports(h) THEN <<h, fn>> ELSE NoFunc

dlsymEffect(t, h, fn) ==
    dlerr' = [dlerr EXCEPT ![t] = IF dlsymValue(h, fn) = NoFunc THEN SymErr(fn) ELSE NoMsg]

----------------------------------------------------------------------------
(* PLUGIN_FACTORY_DEFINITION(T): createPluginFacade, destroyPluginFacade *)

\* createPluginFacade() that constructs an instance at every call
createPluginFacade_alwaysNew(h, a) ==
    /\ a \in Addrs \ heap
    /\ globalInstance' = [globalInstance EXCEPT ![h] = a]
    /\ heap' = heap \cup {a}

\* if (!globalInstance) globalInstance = new T(); return globalInstance;
createPluginFacade(h, a) ==
    /\ IF globalInstance[h] = NULL
       THEN /\ a \in Addrs \ heap
            /\ globalInstance' = [globalInstance EXCEPT ![h] = a]
            /\ heap' = heap \cup {a}
       ELSE /\ a = globalInstance[h]
            /\ UNCHANGED <<globalInstance, heap>>

\* destroyPluginFacade() that deletes the instance and keeps the pointer
destroyPluginFacade_keepsPointer(h) ==
    IF globalInstance[h] # NULL
    THEN /\ heap' = heap \ {globalInstance[h]}
         /\ UNCHANGED globalInstance
    ELSE UNCHANGED <<globalInstance, heap>>

\* if (globalInstance) { delete globalInstance; globalInstance = NULL; }
destroyPluginFacade(h) ==
    IF globalInstance[h] # NULL
    THEN /\ heap' = heap \ {globalInstance[h]}
         /\ globalInstance' = [globalInstance EXCEPT ![h] = NULL]
    ELSE UNCHANGED <<globalInstance, heap>>

----------------------------------------------------------------------------
(* bool load() *)

\* load() without the implicit unload
load_382_noUnload(t) ==
    /\ At(t, "load_382")
    /\ Goto(t, "load_384")
    /\ UNCHANGED <<loaderVars, osVars, pluginVars, ndebug, serialized, status, stack, frame, pre,
                   trace, prev, creates>>

\* if (isLoaded()) unload();
load_382(t) ==
    /\ At(t, "load_382")
    /\ IF isLoaded(self(t))
       THEN CallFrom(t, "unload_397", "load_384")
       ELSE Goto(t, "load_384") /\ UNCHANGED stack
    /\ UNCHANGED <<loaderVars, osVars, pluginVars, ndebug, serialized, status, frame, pre, trace, prev, creates>>

\* if (name_.empty()) return false; return loadLibrary();
load_384(t) ==
    /\ At(t, "load_384")
    /\ IF name_[self(t)] = ""
       THEN /\ frame' = [frame EXCEPT ![t] = Result(t, FALSE, NULL)]
            /\ Return(t)
       ELSE /\ Goto(t, "loadLibrary_522")
            /\ UNCHANGED <<stack, frame>>
    /\ UNCHANGED <<loaderVars, osVars, pluginVars, ndebug, serialized, status, pre, trace, prev, creates>>

\* libHandle_ = dlopen(name_.c_str(), RTLD_LAZY);
loadLibrary_522(t) ==
    /\ At(t, "loadLibrary_522")
    /\ \E ok \in BOOLEAN :
          /\ ok => CanOpen(name_[self(t)])
          /\ libHandle_' = [libHandle_ EXCEPT ![self(t)] = dlopenValue(name_[self(t)], ok)]
          /\ dlopenEffect(t, name_[self(t)], ok)
          /\ Log(t, <<"dlopen", name_[self(t)], IF ok THEN "ok" ELSE "fail">>)
    /\ Goto(t, "loadLibrary_523")
    /\ creates' = [creates EXCEPT ![self(t)] = 0]
    /\ UNCHANGED <<constructed, name_, plugin_, errorMsg_, heap, ndebug, serialized, status,
                   stack, frame, pre, prev>>

\* if (!libHandle_) saveErrorMsg();
loadLibrary_523(t) ==
    /\ At(t, "loadLibrary_523")
    /\ IF libHandle_[self(t)] = NULL
       THEN CallFrom(t, "saveErrorMsg_547", "loadLibrary_525")
       ELSE Goto(t, "loadLibrary_525") /\ UNCHANGED stack
    /\ UNCHANGED <<loaderVars, osVars, pluginVars, ndebug, serialized, status, frame, pre, trace, prev, creates>>

\* loadLibrary() that reports success whatever dlopen returned
loadLibrary_525_returnsTrue(t) ==
    /\ At(t, "loadLibrary_525")
    /\ frame' = [frame EXCEPT ![t] = Result(t, TRUE, NULL)]
    /\ Return(t)
    /\ UNCHANGED <<loaderVars, osVars, pluginVars, ndebug, serialized, status, pre, trace, prev, creates>>

\* return libHandle_ != NULL;   (and load() returns that value)
loadLibrary_525(t) ==
    /\ At(t, "loadLibrary_525")
    /\ frame' = [frame EXCEPT ![t] = Result(t, libHandle_[self(t)] # NULL, NULL)]
    /\ Return(t)
    /\ UNCHANGED <<loaderVars, osVars, pluginVars, ndebug, serialized, status, pre, trace, prev, creates>>

----------------------------------------------------------------------------
(* bool unload() *)

\* unload() without the isLoaded() check
unload_397_noLoadedCheck(t) ==
    /\ At(t, "unload_397")
    /\ frame' = [frame EXCEPT ![t].res = TRUE]
    /\ Goto(t, "unload_400")
    /\ creates' = [creates EXCEPT ![self(t)] = 0]
    /\ UNCHANGED <<loaderVars, osVars, pluginVars, ndebug, serialized, status, stack, pre, trace, prev>>

\* bool res = true; if (isLoaded()) { ... } return res;
unload_397(t) ==
    /\ At(t, "unload_397")
    /\ frame' = [frame EXCEPT ![t].res = TRUE]
    /\ Goto(t, IF isLoaded(self(t)) THEN "unload_400" ELSE "unload_409")
    /\ creates' = [creates EXCEPT ![self(t)] = 0]
    /\ UNCHANGED <<loaderVars, osVars, pluginVars, ndebug, serialized, status, stack, pre, trace, prev>>

\* unload() that closes the library without destroying the facade
unload_400_noDestroy(t) ==
    /\ At(t, "unload_400")
    /\ Goto(t, "unloadLibrary_530")
    /\ UNCHANGED <<loaderVars, osVars, pluginVars, ndebug, serialized, status, stack, frame, pre,
                   trace, prev, creates>>

\* unload() that calls the destroy factory whether or not a facade is cached
unload_400_alwaysDestroys(t) ==
    /\ At(t, "unload_400")
    /\ CallFrom(t, "getFunction_538", "unload_403")
    /\ frame' = [frame EXCEPT ![t].fn = PLUGIN_FACTORY_DESTROY]
    /\ UNCHANGED <<loaderVars, osVars, pluginVars, ndebug, serialized, status, pre, trace, prev, creates>>

\* if (plugin_) { callFunction<void>(PLUGIN_FACTORY_DESTROY); ... }
unload_400(t) ==
    /\ At(t, "unload_400")
    /\ IF plugin_[self(t)] # NULL
       THEN /\ CallFrom(t, "getFunction_538", "unload_403")
            /\ frame' = [frame EXCEPT ![t].fn = PLUGIN_FACTORY_DESTROY]
       ELSE /\ Goto(t, "unloadLibrary_530")
            /\ UNCHANGED <<stack, frame>>
    /\ UNCHANGED <<loaderVars, osVars, pluginVars, ndebug, serialized, status, pre, trace, prev, creates>>

\* unload() that keeps the pointer to the destroyed facade
unload_403_keepsPlugin(t) ==
    /\ At(t, "unload_403")
    /\ Goto(t, "unloadLibrary_530")
    /\ UNCHANGED <<loaderVars, osVars, pluginVars, ndebug, serialized, status, stack, frame, pre,
                   trace, prev, creates>>

\* plugin_ = NULL;
unload_403(t) ==
    /\ At(t, "unload_403")
    /\ plugin_' = [plugin_ EXCEPT ![self(t)] = NULL]
    /\ Goto(t, "unloadLibrary_530")
    /\ UNCHANGED <<constructed, name_, libHandle_, errorMsg_, osVars, pluginVars,
                   ndebug, serialized, status, stack, frame, pre, trace, prev, creates>>

\* int res = dlclose(libHandle_);
unloadLibrary_530(t) ==
    /\ At(t, "unloadLibrary_530")
    /\ \E ok \in BOOLEAN :
          /\ ok => CanClose(libHandle_[self(t)])
          /\ dlcloseEffect(t, libHandle_[self(t)], ok)
          /\ frame' = [frame EXCEPT ![t].res = ok]
          /\ Log(t, <<"dlclose", IF ok THEN "ok" ELSE "fail">>)
    /\ Goto(t, "unloadLibrary_531")
    /\ UNCHANGED <<loaderVars, heap, ndebug, serialized, status, stack, pre, prev, creates>>

\* if (res != 0) saveErrorMsg(); return res == 0;
unloadLibrary_531(t) ==
    /\ At(t, "unloadLibrary_531")
    /\ IF ~frame[t].res
       THEN CallFrom(t, "saveErrorMsg_547", "unload_406")
       ELSE Goto(t, "unload_406") /\ UNCHANGED stack
    /\ UNCHANGED <<loaderVars, osVars, pluginVars, ndebug, serialized, status, frame, pre, trace, prev, creates>>

\* unload() that never resets the handle
unload_406_keepsHandle(t) ==
    /\ At(t, "unload_406")
    /\ Goto(t, "unload_409")
    /\ UNCHANGED <<loaderVars, osVars, pluginVars, ndebug, serialized, status, stack, frame, pre,
                   trace, prev, creates>>

\* unload() that resets the handle whatever dlclose returned
unload_406_alwaysResets(t) ==
    /\ At(t, "unload_406")
    /\ libHandle_' = [libHandle_ EXCEPT ![self(t)] = NULL]
    /\ Goto(t, "unload_409")
    /\ UNCHANGED <<constructed, name_, plugin_, errorMsg_, osVars, pluginVars,
                   ndebug, serialized, status, stack, frame, pre, trace, prev, creates>>

\* res = unloadLibrary(); if (res) libHandle_ = 0;
unload_406(t) ==
    /\ At(t, "unload_406")
    /\ libHandle_' = IF frame[t].res THEN [libHandle_ EXCEPT ![self(t)] = NULL]
                                     ELSE libHandle_
    /\ Goto(t, "unload_409")
    /\ UNCHANGED <<constructed, name_, plugin_, errorMsg_, osVars, pluginVars,
                   ndebug, serialized, status, stack, frame, pre, trace, prev, creates>>

\* return res;
unload_409(t) ==
    /\ At(t, "unload_409")
    /\ frame' = [frame EXCEPT ![t] = Result(t, frame[t].res, NULL)]
    /\ Return(t)
    /\ UNCHANGED <<loaderVars, osVars, pluginVars, ndebug, serialized, status, pre, trace, prev, creates>>

----------------------------------------------------------------------------
(* template<class R> R callFunction(const char* function_name), getFunction *)

\* void* result = dlsym(libHandle_, function_name);
getFunction_538(t) ==
    /\ At(t, "getFunction_538")
    /\ frame' = [frame EXCEPT ![t].func = dlsymValue(libHandle_[self(t)], frame[t].fn)]
    /\ dlsymEffect(t, libHandle_[self(t)], frame[t].fn)
    /\ Log(t, <<"dlsym", frame[t].fn,
                IF dlsymValue(libHandle_[self(t)], frame[t].fn) = NoFunc THEN "null" ELSE "ok">>)
    /\ Goto(t, "getFunction_539")
    /\ UNCHANGED <<loaderVars, refCount, pluginVars, ndebug, serialized, status, stack, pre, prev, creates>>

\* if (!result) saveErrorMsg(); return result;
getFunction_539(t) ==
    /\ At(t, "getFunction_539")
    /\ IF frame[t].func = NoFunc
       THEN CallFrom(t, "saveErrorMsg_547", "callFunction_495")
       ELSE Goto(t, "callFunction_495") /\ UNCHANGED stack
    /\ UNCHANGED <<loaderVars, osVars, pluginVars, ndebug, serialized, status, frame, pre, trace, prev, creates>>

\* assert(func);   (nothing when NDEBUG is defined)
callFunction_495(t) ==
    /\ At(t, "callFunction_495")
    /\ IF frame[t].func = NoFunc /\ ~ndebug
       THEN Crash("abort") /\ UNCHANGED pc
       ELSE Goto(t, "callFunction_496") /\ UNCHANGED status
    /\ Log(t, <<"assert", "func">>)
    /\ UNCHANGED <<loaderVars, osVars, pluginVars, ndebug, serialized, stack, frame, pre, prev, creates>>

\* return (*func)();   a call through a null pointer faults
callFunction_496(t) ==
    /\ At(t, "callFunction_496")
    /\ IF frame[t].func = NoFunc
       THEN /\ Crash("segv")
            /\ UNCHANGED <<pc, stack, frame, trace, pluginVars, creates>>
       ELSE /\ IF frame[t].func[2] = PLUGIN_FACTORY_CREATE
               THEN \E a \in Addrs :
                       /\ createPluginFacade(frame[t].func[1], a)
                       /\ frame' = [frame EXCEPT ![t].result = a, ![t].func = NoFunc,
                                                 ![t].fn = ""]
                       /\ creates' = [creates EXCEPT ![self(t)] =
                                         IF @ < MaxCalls THEN @ + 1 ELSE @]
               ELSE /\ destroyPluginFacade(frame[t].func[1])
                    /\ frame' = [frame EXCEPT ![t].func = NoFunc, ![t].fn = ""]
                    /\ UNCHANGED creates
            /\ Log(t, <<"call", frame[t].func[2]>>)
            /\ Return(t)
            /\ UNCHANGED status
    /\ UNCHANGED <<loaderVars, osVars, ndebug, serialized, pre, prev>>

----------------------------------------------------------------------------
(* void saveErrorMsg() *)

\* saveErrorMsg() that reads dlerror() and stores nothing
saveErrorMsg_547_noStore(t) ==
    /\ At(t, "saveErrorMsg_547")
    /\ dlerr' = [dlerr EXCEPT ![t] = NoMsg]
    /\ Goto(t, "saveErrorMsg_552")
    /\ UNCHANGED <<loaderVars, refCount, pluginVars,
                   ndebug, serialized, status, stack, frame, pre, trace, prev, creates>>

\* saveErrorMsg() whose first dlerror() leaves the error pending
saveErrorMsg_547_keepsPending(t) ==
    /\ At(t, "saveErrorMsg_547")
    /\ errorMsg_' = IF dlerr[t] # NoMsg THEN [errorMsg_ EXCEPT ![self(t)] = dlerr[t]]
                                        ELSE errorMsg_
    /\ Goto(t, "saveErrorMsg_552")
    /\ UNCHANGED <<constructed, name_, plugin_, libHandle_, osVars, pluginVars,
                   ndebug, serialized, status, stack, frame, pre, trace, prev, creates>>

\* char* str = dlerror(); if (str) errorMsg_ = str;
saveErrorMsg_547(t) ==
    /\ At(t, "saveErrorMsg_547")
    /\ errorMsg_' = IF dlerr[t] # NoMsg THEN [errorMsg_ EXCEPT ![self(t)] = dlerr[t]]
                                        ELSE errorMsg_
    /\ dlerr' = [dlerr EXCEPT ![t] = NoMsg]
    /\ Goto(t, "saveErrorMsg_552")
    /\ UNCHANGED <<constructed, name_, plugin_, libHandle_, refCount, pluginVars,
                   ndebug, serialized, status, stack, frame, pre, trace, prev, creates>>

\* str = dlerror(); assert(!str);
saveErrorMsg_552(t) ==
    /\ At(t, "saveErrorMsg_552")
    /\ IF dlerr[t] # NoMsg /\ ~ndebug
       THEN Crash("abort") /\ UNCHANGED <<pc, stack>>
       ELSE Return(t) /\ UNCHANGED status
    /\ dlerr' = [dlerr EXCEPT ![t] = NoMsg]
    /\ Log(t, <<"assert", "!str">>)
    /\ UNCHANGED <<loaderVars, refCount, pluginVars, ndebug, serialized, frame, pre, prev, creates>>

----------------------------------------------------------------------------
(* T* getPluginInstance() *)

\* getPluginInstance() without the isLoaded() check
getPluginInstance_429_noLoadedCheck(t) ==
    /\ At(t, "getPluginInstance_429")
    /\ Goto(t, "getPluginInstance_431")
    /\ UNCHANGED <<loaderVars, osVars, pluginVars, ndebug, serialized, status, stack, frame, pre,
                   trace, prev, creates>>

\* if (!isLoaded()) return NULL;
getPluginInstance_429(t) ==
    /\ At(t, "getPluginInstance_429")
    /\ IF ~isLoaded(self(t))
       THEN /\ frame' = [frame EXCEPT ![t] = Result(t, FALSE, NULL)]
            /\ Return(t)
       ELSE /\ Goto(t, "getPluginInstance_431")
            /\ UNCHANGED <<stack, frame>>
    /\ UNCHANGED <<loaderVars, osVars, pluginVars, ndebug, serialized, status, pre, trace, prev, creates>>

\* getPluginInstance() that calls the create factory every time
getPluginInstance_431_alwaysCreates(t) ==
    /\ At(t, "getPluginInstance_431")
    /\ CallFrom(t, "getFunction_538", "getPluginInstance_432")
    /\ frame' = [frame EXCEPT ![t].fn = PLUGIN_FACTORY_CREATE]
    /\ UNCHANGED <<loaderVars, osVars, pluginVars, ndebug, serialized, status, pre, trace, prev, creates>>

\* if (!plugin_) plugin_ = callFunction<T*>(PLUGIN_FACTORY_CREATE);
getPluginInstance_431(t) ==
    /\ At(t, "getPluginInstance_431")
    /\ IF plugin_[self(t)] = NULL
       THEN /\ CallFrom(t, "getFunction_538", "getPluginInstance_432")
            /\ frame' = [frame EXCEPT ![t].fn = PLUGIN_FACTORY_CREATE]
       ELSE /\ Goto(t, "getPluginInstance_433")
            /\ UNCHANGED <<stack, frame>>
    /\ UNCHANGED <<loaderVars, osVars, pluginVars, ndebug, serialized, status, pre, trace, prev, creates>>

\* getPluginInstance() that drops the facade the factory returned
getPluginInstance_432_notCached(t) ==
    /\ At(t, "getPluginInstance_432")
    /\ frame' = [frame EXCEPT ![t].result = NULL]
    /\ Goto(t, "getPluginInstance_433")
    /\ UNCHANGED <<loaderVars, osVars, pluginVars, ndebug, serialized, status, stack, pre, trace,
                   prev, creates>>

\* plugin_ = (the value callFunction returned)
getPluginInstance_432(t) ==
    /\ At(t, "getPluginInstance_432")
    /\ plugin_' = [plugin_ EXCEPT ![self(t)] = frame[t].result]
    /\ frame' = [frame EXCEPT ![t].result = NULL]
    /\ Goto(t, "getPluginInstance_433")
    /\ UNCHANGED <<constructed, name_, libHandle_, errorMsg_, osVars, pluginVars,
                   ndebug, serialized, status, stack, pre, trace, prev, creates>>

\* return plugin_;
getPluginInstance_433(t) ==
    /\ At(t, "getPluginInstance_433")
    /\ frame' = [frame EXCEPT ![t] = Result(t, FALSE, plugin_[self(t)])]
    /\ Return(t)
    /\ UNCHANGED <<loaderVars, osVars, pluginVars, ndebug, serialized, status, pre, trace, prev, creates>>

----------------------------------------------------------------------------
(* ~PluginLoader() *)

\* unload();
dtor_371(t) ==
    /\ At(t, "dtor_371")
    /\ CallFrom(t, "unload_397", "dtor_372")
    /\ UNCHANGED <<loaderVars, osVars, pluginVars, ndebug, serialized, status, frame, pre, trace, prev, creates>>

\* the members are destroyed; the value unload() returned is dropped
dtor_372(t) ==
    /\ At(t, "dtor_372")
    /\ constructed' = [constructed EXCEPT ![self(t)] = FALSE]
    /\ frame' = [frame EXCEPT ![t] = Result(t, frame[t].retB, NULL)]
    /\ Return(t)
    /\ UNCHANGED <<name_, plugin_, libHandle_, errorMsg_, osVars, pluginVars,
                   ndebug, serialized, status, pre, trace, prev, creates>>

----------------------------------------------------------------------------
(* Specifications *)

\* a step of load(), unload() or getPluginInstance(), or the return to the client
OpStep(t) ==
    \/ load_382(t) \/ load_384(t)
    \/ loadLibrary_522(t) \/ loadLibrary_523(t) \/ loadLibrary_525(t)
    \/ unload_397(t) \/ unload_400(t) \/ unload_403(t)
    \/ unloadLibrary_530(t) \/ unloadLibrary_531(t)
    \/ unload_406(t) \/ unload_409(t)
    \/ getFunction_538(t) \/ getFunction_539(t)
    \/ callFunction_495(t) \/ callFunction_496(t)
    \/ saveErrorMsg_547(t) \/ saveErrorMsg_552(t)
    \/ getPluginInstance_429(t) \/ getPluginInstance_431(t)
    \/ getPluginInstance_432(t) \/ getPluginInstance_433(t)
    \/ Resume(t)

Step(t) == OpStep(t) \/ dtor_371(t) \/ dtor_372(t)

Client(t, l) ==
    \/ CallLoad(t, l)
    \/ CallUnload(t, l)
    \/ CallGetPluginInstance(t, l)
    \/ CallDestructor(t, l)
    \/ \E n \in Names : Construct(t, l, n)
    \/ \E n \in Names : setPluginName(t, l, n)

\* one thread using one loader
Next == Step(1) \/ Client(1, 1)

Spec == Init /\ [][Next]_vars

\* two threads, each making one call of load(), unload() or
\* getPluginInstance() on the same loader, with or without serializing the
\* calls
\* the loader was constructed for MyPlugin.so and is Unloaded, Loaded or
\* Active (facade at address a) when the threads start
ThreadsInit ==
    /\ serialized \in BOOLEAN
    /\ constructed = [l \in Loaders |-> l = 1]
    /\ name_ = [l \in Loaders |-> IF l = 1 THEN "MyPlugin.so" ELSE ""]
    /\ \E h \in {NULL, MyPluginLib}, a \in {NULL} \cup Addrs :
          /\ h = NULL => a = NULL
          /\ libHandle_ = [l \in Loaders |-> IF l = 1 THEN h ELSE NULL]
          /\ plugin_ = [l \in Loaders |-> IF l = 1 THEN a ELSE NULL]
          /\ refCount = [k \in Handles |-> IF k = h THEN 1 ELSE 0]
          /\ globalInstance = [k \in Handles |-> IF k = h THEN a ELSE NULL]
          /\ heap = {a} \ {NULL}
          /\ creates = [l \in Loaders |-> IF l = 1 /\ a # NULL THEN 1 ELSE 0]
    /\ errorMsg_ = [l \in Loaders |-> NoMsg]
    /\ dlerr = [t \in Threads |-> NoMsg]
    /\ ndebug \in BOOLEAN
    /\ status = "running"
    /\ pc = [t \in Threads |-> "idle"]
    /\ stack = [t \in Threads |-> <<>>]
    /\ frame = [t \in Threads |-> NoFrame]
    /\ pre = [t \in Threads |-> NoPre]
    /\ trace = [t \in Threads |-> <<>>]
    /\ prev = [t \in Threads |-> NoPrev]

ThreadsNext ==
    \E t \in Threads :
        \/ OpStep(t)
        \/ prev[t] = NoPrev /\ CallLoad(t, 1)
        \/ prev[t] = NoPrev /\ CallUnload(t, 1)
        \/ prev[t] = NoPrev /\ CallGetPluginInstance(t, 1)

ThreadsSpec == ThreadsInit /\ [][ThreadsNext]_vars

\* one thread using two loaders, both constructed for MyPlugin.so
LoadersInit ==
    /\ serialized = TRUE
    /\ constructed = [l \in Loaders |-> TRUE]
    /\ name_ = [l \in Loaders |-> "MyPlugin.so"]
    /\ plugin_ = [l \in Loaders |-> NULL]
    /\ libHandle_ = [l \in Loaders |-> NULL]
    /\ errorMsg_ = [l \in Loaders |-> NoMsg]
    /\ refCount = [h \in Handles |-> 0]
    /\ dlerr = [t \in Threads |-> NoMsg]
    /\ globalInstance = [h \in Handles |-> NULL]
    /\ heap = {}
    /\ ndebug \in BOOLEAN
    /\ status = "running"
    /\ pc = [t \in Threads |-> "idle"]
    /\ stack = [t \in Threads |-> <<>>]
    /\ frame = [t \in Threads |-> NoFrame]
    /\ pre = [t \in Threads |-> NoPre]
    /\ trace = [t \in Threads |-> <<>>]
    /\ prev = [t \in Threads |-> NoPrev]
    /\ creates = [l \in Loaders |-> 0]

LoadersNext ==
    \/ Step(1)
    \/ \E l \in Loaders :
          \/ CallLoad(1, l)
          \/ CallUnload(1, l)
          \/ CallGetPluginInstance(1, l)
          \/ CallDestructor(1, l)

LoadersSpec == LoadersInit /\ [][LoadersNext]_vars

----------------------------------------------------------------------------
(* The factory functions called directly on a mapped plugin *)

\* the plugin is mapped, its globalInstance is NULL, nothing was called
FactoryInit ==
    /\ constructed = [l \in Loaders |-> FALSE]
    /\ name_ = [l \in Loaders |-> ""]
    /\ plugin_ = [l \in Loaders |-> NULL]
    /\ libHandle_ = [l \in Loaders |-> NULL]
    /\ errorMsg_ = [l \in Loaders |-> NoMsg]
    /\ refCount = [h \in Handles |-> IF h = MyPluginLib THEN 1 ELSE 0]
    /\ dlerr = [t \in Threads |-> NoMsg]
    /\ globalInstance = [h \in Handles |-> NULL]
    /\ heap = {}
    /\ ndebug \in BOOLEAN
    /\ serialized = TRUE
    /\ status = "running"
    /\ pc = [t \in Threads |-> "idle"]
    /\ stack = [t \in Threads |-> <<>>]
    /\ frame = [t \in Threads |-> NoFrame]
    /\ pre = [t \in Threads |-> NoPre]
    /\ trace = [t \in Threads |-> <<>>]
    /\ prev = [t \in Threads |-> NoPrev]
    /\ creates = [l \in Loaders |-> 0]

\* p = createPluginFacade();  the log keeps p and whether an instance was
\* constructed
DirectCreate(t, h) ==
    /\ At(t, "idle")
    /\ Len(trace[t]) < MaxLog
    /\ \E a \in Addrs :
          /\ createPluginFacade(h, a)
          /\ Log(t, <<"create", a, IF heap' = heap THEN "same" ELSE "new">>)
    /\ UNCHANGED <<loaderVars, osVars, ndebug, serialized, status, pc, stack, frame, pre, prev, creates>>

\* destroyPluginFacade();  the log keeps the pointer globalInstance held,
\* which is deleted unless NULL
DirectDestroy(t, h) ==
    /\ At(t, "idle")
    /\ Len(trace[t]) < MaxLog
    /\ destroyPluginFacade(h)
    /\ Log(t, <<"destroy", globalInstance[h]>>)
    /\ UNCHANGED <<loaderVars, osVars, ndebug, serialized, status, pc, stack, frame, pre, prev, creates>>

\* one client calling the two functions of MyPlugin in any order
FactoryNext == DirectCreate(1, MyPluginLib) \/ DirectDestroy(1, MyPluginLib)

FactorySpec == FactoryInit /\ [][FactoryNext]_vars

----------------------------------------------------------------------------
(* Reading a finished operation *)

\* thread t is back in the client from member function op
Done(t, op) == pc[t] = "done" /\ frame[t].op = op

\* the operation of thread t made the call ev / how often / where first
Has(t, ev) == \E i \in 1..Len(trace[t]) : trace[t][i] = ev

Count(t, ev) == Cardinality({i \in 1..Len(trace[t]) : trace[t][i] = ev})

First(t, ev) == CHOOSE i \in 1..Len(trace[t]) :
                    /\ trace[t][i] = ev
                    /\ \A j \in 1..(i - 1) : trace[t][j] # ev

CallCreate == <<"call", PLUGIN_FACTORY_CREATE>>
CallDestroy == <<"call", PLUGIN_FACTORY_DESTROY>>
ResolveCreate == <<"dlsym", PLUGIN_FACTORY_CREATE, "ok">>
CloseOk == <<"dlclose", "ok">>
CloseFail == <<"dlclose", "fail">>
OpenOk(name) == <<"dlopen", name, "ok">>

\* the operation found the loader Unloaded / Loaded / Active
WasUnloaded(t) == pre[t].handle = NULL /\ pre[t].plugin = NULL
WasLoaded(t) == pre[t].handle # NULL /\ pre[t].plugin = NULL
WasActive(t) == pre[t].handle # NULL /\ pre[t].plugin # NULL

----------------------------------------------------------------------------
(* Claims *)

\* C1: in every reachable state, whatever the OS open and close calls
\* answered, a loader's cached facade pointer is non-null only if its library
\* handle is non-null.
C1_FacadeOnlyIfHandle ==
    \A l \in Loaders : plugin_[l] # NULL => libHandle_[l] # NULL

\* C1 witness: load() on an Active loader has returned with the handle null
\* (the reopen failed), the one place where the old facade could outlive it.
C1_Witness ==
    \E t \in Threads : Done(t, "load") /\ WasActive(t) /\ libHandle_[self(t)] = NULL

\* C2: load() on an Unloaded loader returns true and leaves the loader Loaded
\* exactly when the name is non-empty and the OS open succeeded; otherwise it
\* returns false and the loader is still Unloaded, and a getPluginInstance()
\* that follows returns null.
C2_LoadFromUnloaded ==
    \A t \in Threads :
        /\ (Done(t, "load") /\ WasUnloaded(t)) =>
              LET opened == pre[t].name # "" /\ Has(t, OpenOk(pre[t].name))
              IN  /\ (frame[t].retB /\ Loaded(self(t))) <=> opened
                  /\ ~opened => (~frame[t].retB /\ Unloaded(self(t)))
        /\ (/\ Done(t, "getPluginInstance")
            /\ prev[t].op = "load" /\ prev[t].self = self(t)
            /\ ~prev[t].loaded /\ ~prev[t].retB) => frame[t].retP = NULL

\* C2 witness: both outcomes of load() on an Unloaded loader have been seen by
\* this thread: a failed load followed by getPluginInstance().
C2_Witness ==
    \E t \in Threads :
        /\ Done(t, "getPluginInstance")
        /\ prev[t].op = "load" /\ ~prev[t].loaded /\ ~prev[t].retB
        /\ pre[t].name = "NonExistingPath"

\* C3: when load() returns, in whatever state it was called, the cached
\* facade pointer is null and load() has not called the create factory; a load()
\* that returns true leaves the loader Loaded.
C3_LoadLeavesNoFacade ==
    \A t \in Threads :
        /\ frame[t].op = "load" => (~Has(t, CallCreate) /\ ~Has(t, ResolveCreate))
        /\ Done(t, "load") =>
              /\ plugin_[self(t)] = NULL
              /\ frame[t].retB => Loaded(self(t))

\* C3 witness: load() on an Active loader has returned true.
C3_Witness ==
    \E t \in Threads : Done(t, "load") /\ WasActive(t) /\ frame[t].retB

\* C4: load() returns false exactly when isLoaded() is false afterwards, in
\* whatever state it was called and whatever the implicit unload's close did.
C4_LoadResultIsLoaded ==
    \A t \in Threads : Done(t, "load") => (frame[t].retB <=> isLoaded(self(t)))

\* C5: when unload() returns true the facade pointer and the handle are both
\* null, and on a loader that was loaded it returns true only if the OS close
\* succeeded.
C5_UnloadTrue ==
    \A t \in Threads :
        (Done(t, "unload") /\ frame[t].retB) =>
            /\ Unloaded(self(t))
            /\ pre[t].handle # NULL => Has(t, CloseOk)

\* C5 witness: unload() of an Active loader has returned true.
C5_Witness ==
    \E t \in Threads : Done(t, "unload") /\ WasActive(t) /\ frame[t].retB

\* C6: when the OS close fails in unload() of an Active loader, unload()
\* returns false, the facade pointer is null, the destroy factory was called
\* exactly once, and the handle is the one the loader had: isLoaded() is true.
C6_UnloadCloseFails ==
    \A t \in Threads :
        (Done(t, "unload") /\ WasActive(t) /\ Has(t, CloseFail)) =>
            /\ ~frame[t].retB
            /\ plugin_[self(t)] = NULL
            /\ Count(t, CallDestroy) = 1
            /\ pre[t].plugin \notin heap
            /\ libHandle_[self(t)] = pre[t].handle
            /\ isLoaded(self(t))

\* C6 witness: unload() of an Active loader has returned after a failed close.
C6_Witness ==
    \E t \in Threads : Done(t, "unload") /\ WasActive(t) /\ Has(t, CloseFail)

\* C7: in an unload of an Active loader the destroy factory is called before
\* the OS close; the cached pointer is still set when destroy returns and is
\* null when the close is attempted; the close is never attempted while the
\* facade created through this loader is alive.
C7_DestroyBeforeClose ==
    \A t \in Threads :
        /\ (Running(t) /\ pc[t] = "unloadLibrary_530") =>
              /\ plugin_[self(t)] = NULL
              /\ WasActive(t) =>
                    /\ Has(t, CallDestroy)
                    /\ pre[t].plugin \notin heap
                    /\ globalInstance[libHandle_[self(t)]] = NULL
        /\ (Running(t) /\ pc[t] = "unload_403") =>
              /\ Has(t, CallDestroy)
              /\ plugin_[self(t)] = pre[t].plugin
              /\ ~Has(t, CloseOk) /\ ~Has(t, CloseFail)
        /\ (WasActive(t) /\ (Has(t, CloseOk) \/ Has(t, CloseFail))) =>
              /\ Has(t, CallDestroy)
              /\ Has(t, CloseOk) => First(t, CallDestroy) < First(t, CloseOk)
              /\ Has(t, CloseFail) => First(t, CallDestroy) < First(t, CloseFail)

\* C7 witness: unload() of an Active loader is about to call dlclose.
C7_Witness ==
    \E t \in Threads :
        pc[t] = "unloadLibrary_530" /\ frame[t].op = "unload" /\ WasActive(t)

\* C8: getPluginInstance() on an Active loader returns the cached pointer and
\* resolves and calls nothing; consecutive calls return the same pointer, and
\* whenever it returns a facade the create factory has been called exactly
\* once since the load (or unload) that preceded.
C8_ActiveGetIsCached ==
    \A t \in Threads :
        /\ (Done(t, "getPluginInstance") /\ WasActive(t)) =>
              /\ frame[t].retP = pre[t].plugin
              /\ plugin_[self(t)] = pre[t].plugin
              /\ trace[t] = <<>>
        /\ (/\ Done(t, "getPluginInstance")
            /\ prev[t].op = "getPluginInstance" /\ prev[t].self = self(t)
            /\ prev[t].retP # NULL) => frame[t].retP = prev[t].retP
        /\ (Done(t, "getPluginInstance") /\ frame[t].retP # NULL) =>
              creates[self(t)] = 1

\* C8 witness: a second consecutive getPluginInstance() on an Active loader
\* has returned.
C8_Witness ==
    \E t \in Threads :
        /\ Done(t, "getPluginInstance") /\ WasActive(t)
        /\ prev[t].op = "getPluginInstance" /\ prev[t].retP # NULL

\* C9: getPluginInstance() on a Loaded loader whose library exports the create
\* factory resolves "createPluginFacade", calls it exactly once, caches and
\* returns the non-null facade: the loader is Active with the same handle.
C9_LoadedGetCreates ==
    \A t \in Threads :
        (/\ Done(t, "getPluginInstance") /\ WasLoaded(t)
         /\ PLUGIN_FACTORY_CREATE \in Exports(pre[t].handle)) =>
            /\ Has(t, <<"dlsym", "createPluginFacade", "ok">>)
            /\ Count(t, CallCreate) = 1
            /\ ~Has(t, CallDestroy)
            /\ First(t, ResolveCreate) < First(t, CallCreate)
            /\ frame[t].retP # NULL
            /\ frame[t].retP \in heap
            /\ plugin_[self(t)] = frame[t].retP
            /\ globalInstance[pre[t].handle] = frame[t].retP
            /\ libHandle_[self(t)] = pre[t].handle
            /\ Active(self(t))

\* C9 witness: getPluginInstance() has returned on a loader it found Loaded
\* with MyPlugin.so.
C9_Witness ==
    \E t \in Threads :
        Done(t, "getPluginInstance") /\ WasLoaded(t) /\ pre[t].handle = MyPluginLib

\* C10: getPluginInstance() on an Unloaded loader returns null and does
\* nothing: no symbol resolution, no factory call, no assertion, and the
\* handle, facade pointer, name and error message are as they were.
C10_UnloadedGetIsNoOp ==
    \A t \in Threads :
        (frame[t].op = "getPluginInstance" /\ WasUnloaded(t)) =>
            /\ trace[t] = <<>>
            /\ Snapshot(self(t)) = pre[t]
            /\ status = "running"
            /\ pc[t] \in {"getPluginInstance_429", "done"}
            /\ pc[t] = "done" => frame[t].retP = NULL

\* C10 witness: getPluginInstance() has returned on a loader it found
\* Unloaded, with an error message stored by an earlier failed load().
C10_Witness ==
    \E t \in Threads :
        /\ Done(t, "getPluginInstance") /\ WasUnloaded(t)
        /\ pre[t].msg # NoMsg

\* C11: unload() on an Unloaded loader returns true and does nothing: no
\* destroy factory, no OS close, no assertion, every member as it was; so it
\* returns true again however often it is repeated after a successful unload.
C11_UnloadedUnloadIsNoOp ==
    \A t \in Threads :
        /\ (frame[t].op = "unload" /\ WasUnloaded(t)) =>
              /\ trace[t] = <<>>
              /\ Snapshot(self(t)) = pre[t]
              /\ status = "running"
              /\ pc[t] \in {"unload_397", "unload_409", "done"}
              /\ pc[t] = "done" => frame[t].retB
        /\ (/\ Done(t, "unload")
            /\ prev[t].op = "unload" /\ prev[t].self = self(t) /\ prev[t].retB) =>
              /\ frame[t].retB
              /\ trace[t] = <<>>
              /\ Unloaded(self(t))

\* C11 witness: an unload() has returned that follows an unload() which
\* returned true on a loaded loader.
C11_Witness ==
    \E t \in Threads :
        /\ Done(t, "unload") /\ WasUnloaded(t)
        /\ prev[t].op = "unload" /\ prev[t].loaded /\ prev[t].retB

\* C12: after load() = true, getPluginInstance() # NULL and unload() = true
\* the facade is destroyed and the loader Unloaded; the second load() returns
\* true when its OS open succeeds, and the getPluginInstance() after it
\* returns a live facade that one new call of the create factory constructed,
\* the plugin's globalInstance having been NULL again.
C12_RoundTrip ==
    \A t \in Threads :
        /\ (pc[t] = "idle" /\ prev[t].trip = 3) =>
              /\ Unloaded(prev[t].self)
              /\ name_[prev[t].self] # ""
              /\ globalInstance[FileOf(name_[prev[t].self])] = NULL
              /\ heap = {}
        /\ (frame[t].op = "load" /\ prev[t].trip = 3 /\ prev[t].self = self(t)) =>
              /\ status = "running"
              /\ pc[t] = "done" =>
                    /\ Has(t, OpenOk(pre[t].name)) \/ Has(t, <<"dlopen", pre[t].name, "fail">>)
                    /\ Has(t, OpenOk(pre[t].name)) => (frame[t].retB /\ Loaded(self(t)))
        /\ (/\ frame[t].op = "getPluginInstance"
            /\ prev[t].trip = 4 /\ prev[t].self = self(t)) =>
              /\ status = "running"
              /\ pre[t].instance = NULL
              /\ pc[t] = "done" =>
                    /\ frame[t].retP # NULL
                    /\ frame[t].retP \in heap
                    /\ Count(t, CallCreate) = 1
                    /\ plugin_[self(t)] = frame[t].retP
                    /\ globalInstance[libHandle_[self(t)]] = frame[t].retP

\* C12 witness: the getPluginInstance() that ends the round trip has returned.
C12_Witness ==
    \E t \in Threads :
        Done(t, "getPluginInstance") /\ prev[t].trip = 4 /\ prev[t].self = self(t)

C14_ConstructedUnloaded ==
    /\ \A t \in Threads :
          /\ (Done(t, "PluginLoader") \/ (pc[t] = "idle" /\ prev[t].op = "PluginLoader")) =>
                LET l == IF pc[t] = "done" THEN self(t) ELSE prev[t].self
                    n == IF pc[t] = "done" THEN frame[t].arg ELSE prev[t].arg
                IN  /\ constructed[l]
                    /\ ~isLoaded(l)
                    /\ Unloaded(l)
                    /\ getErrorMsg(l) = NoMsg
                    /\ getPluginName(l) = n
          /\ (/\ frame[t].op = "getPluginInstance"
              /\ prev[t].op = "PluginLoader" /\ prev[t].self = self(t)) =>
                /\ status = "running"
                /\ trace[t] = <<>>
                /\ pc[t] = "done" => (frame[t].retP = NULL /\ getErrorMsg(self(t)) = NoMsg)
    /\ \A l \in Loaders :
          constructed[l] =>
              /\ isLoaded(l) <=> (Loaded(l) \/ Active(l))
              /\ ~isLoaded(l) <=> Unloaded(l)
              /\ (isLoaded(l) /\ \A t \in Threads : pc[t] \in {"idle", "done"}) =>
                    (libHandle_[l] \in Handles /\ refCount[libHandle_[l]] > 0)

\* C14 witness: getPluginInstance() returned on a loader just constructed
\* with the default empty name.
C14_Witness ==
    \E t \in Threads :
        /\ Done(t, "getPluginInstance")
        /\ prev[t].op = "PluginLoader" /\ prev[t].self = self(t) /\ prev[t].arg = ""

\* C15: setPluginName(n) changes the stored name and nothing else: handle,
\* cached facade, error message, the library's reference count and its
\* globalInstance are as before, no OS primitive or factory is called,
\* getPluginName() returns n at once, and the OS open of the next load() is
\* given n.
C15_SetNameOnlyName ==
    \A t \in Threads :
        /\ Done(t, "setPluginName") =>
              /\ getPluginName(self(t)) = frame[t].arg
              /\ Snapshot(self(t)) = [pre[t] EXCEPT !.name = frame[t].arg]
              /\ trace[t] = <<>>
              /\ status = "running"
        /\ (/\ frame[t].op = "load"
            /\ prev[t].op = "setPluginName" /\ prev[t].self = self(t)) =>
              /\ pre[t].name = prev[t].arg
              /\ \A i \in 1..Len(trace[t]) :
                    trace[t][i][1] = "dlopen" => trace[t][i][2] = prev[t].arg
              /\ (pc[t] = "done" /\ prev[t].arg # "") =>
                    \E i \in 1..Len(trace[t]) :
                        trace[t][i][1] = "dlopen" /\ trace[t][i][2] = prev[t].arg

\* C15 witness: the name was set on a loader holding a library, and the
\* load() after it opened the new name.
C15_Witness ==
    \E t \in Threads :
        /\ Done(t, "load")
        /\ prev[t].op = "setPluginName" /\ prev[t].self = self(t) /\ prev[t].loaded
        /\ Has(t, OpenOk(prev[t].arg))
        /\ Has(t, CloseFail)

\* C16 as claimed: after a load() that returned false getErrorMsg() is set
\* and describes this failure: it is the text of the failed OS open when the
\* name is not empty, and it is not empty when the name is empty.
C16_FailedLoadRecordsError ==
    \A t \in Threads :
        (Done(t, "load") /\ ~frame[t].retB) =>
            /\ getErrorMsg(self(t)) # NoMsg
            /\ pre[t].name # "" => getErrorMsg(self(t)) = OpenErr(pre[t].name)

\* the text dlerror() holds after the OS call logged as ev failed, NoMsg
\* when ev is not a failed OS call
FailText(ev) ==
    CASE Len(ev) = 3 /\ ev[1] = "dlopen" /\ ev[3] = "fail" -> OpenErr(ev[2])
      [] Len(ev) = 3 /\ ev[1] = "dlsym" /\ ev[3] = "null" -> SymErr(ev[2])
      [] ev = CloseFail -> CloseErr
      [] OTHER -> NoMsg

\* the text of the most recent OS failure of thread t's operation, or the
\* message the operation found when it had none
LastFailure(t) ==
    LET F == {i \in 1..Len(trace[t]) : FailText(trace[t][i]) # NoMsg}
    IN  IF F = {} THEN pre[t].msg
        ELSE FailText(trace[t][CHOOSE i \in F : \A j \in F : j <= i])

\* C17: getErrorMsg() is the text of the most recent failed open, close or
\* symbol resolution and empty when there was none: it is empty after
\* construction, each operation ends (returns or stops at an assertion or
\* fault) with the text of its last OS failure, or with the message it found
\* when it had no OS failure, and nothing but saveErrorMsg() storing a pending
\* dlerror() text, or a constructor, ever changes it.
C17_LastOsFailure ==
    /\ []((\A t \in Threads : pc[t] = "idle" /\ prev[t] = NoPrev) =>
              \A l \in Loaders : constructed[l] => getErrorMsg(l) = NoMsg)
    /\ [](\A t \in Threads :
              (frame[t].op # "" /\ (pc[t] = "done" \/ status # "running")) =>
                  getErrorMsg(self(t)) = LastFailure(t))
    /\ [][\A l \in Loaders :
            errorMsg_'[l] # errorMsg_[l] =>
                \E t \in Threads :
                    \/ /\ pc[t] = "saveErrorMsg_547" /\ self(t) = l
                       /\ dlerr[t] # NoMsg /\ errorMsg_'[l] = dlerr[t]
                    \/ /\ pc[t] = "idle" /\ ~constructed[l] /\ constructed'[l]
                       /\ errorMsg_'[l] = NoMsg]_vars

\* C17 witness: an operation ended with the text of its failed close in
\* place of the different text of an earlier failure.
C17_Witness ==
    \E t \in Threads :
        /\ Done(t, "unload") /\ Has(t, CloseFail)
        /\ pre[t].msg \notin {NoMsg, CloseErr}
        /\ getErrorMsg(self(t)) = CloseErr

\* C18 as claimed: a factory symbol that cannot be resolved is never called
\* through, getPluginInstance() on a Loaded loader never returns null, and
\* the operation stops at the assertion of callFunction with the resolve
\* error text saved and the handle and facade pointer as the operation found
\* them.
C18_UnresolvedSymbolDetected ==
    \A t \in Threads :
        /\ ~(pc[t] = "callFunction_496" /\ frame[t].func = NoFunc)
        /\ status # "segv"
        /\ (status = "abort" /\ pc[t] = "callFunction_495") =>
              /\ frame[t].func = NoFunc
              /\ getErrorMsg(self(t)) = SymErr(frame[t].fn)
              /\ libHandle_[self(t)] = pre[t].handle
              /\ plugin_[self(t)] = pre[t].plugin
        /\ (Done(t, "getPluginInstance") /\ WasLoaded(t)) => frame[t].retP # NULL

C20_FactorySingleton ==
    /\ Cardinality(heap) <= 1
    /\ \A h \in Handles : globalInstance[h] # NULL => globalInstance[h] \in heap
    /\ \A t \in Threads :
          pc[t] = "idle" =>
              /\ \A i \in 1..Len(trace[t]) :
                    trace[t][i][1] = "create" => trace[t][i][2] \in Addrs
              /\ \A i, j \in 1..Len(trace[t]) :
                    (/\ i < j
                     /\ trace[t][i][1] = "create" /\ trace[t][j][1] = "create"
                     /\ \A k \in (i + 1)..(j - 1) : trace[t][k][1] # "destroy") =>
                        /\ trace[t][j][2] = trace[t][i][2]
                        /\ trace[t][j][3] = "same"
              /\ (trace[t] # <<>> /\ trace[t][Len(trace[t])][1] = "create") =>
                    heap = {trace[t][Len(trace[t])][2]}
              /\ (trace[t] # <<>> /\ trace[t][Len(trace[t])][1] = "destroy") =>
                    heap = {}

\* C20 witness: two creates in a row, a destroy, and a create again.
C20_Witness ==
    \E t \in Threads :
        /\ Len(trace[t]) >= 4
        /\ trace[t][1][1] = "create" /\ trace[t][2][1] = "create"
        /\ trace[t][3][1] = "destroy" /\ trace[t][4][1] = "create"
        /\ trace[t][4][3] = "new"

\* C21: destroyPluginFacade() deletes the instance the last
\* createPluginFacade() returned and leaves globalInstance NULL and no
\* instance alive; called first or right after another destroyPluginFacade()
\* it deletes nothing; the createPluginFacade() after it constructs an
\* instance and returns it.
C21_DestroyResets ==
    \A t \in Threads :
        pc[t] = "idle" =>
            /\ \A i \in 1..Len(trace[t]) :
                  trace[t][i][1] = "destroy" =>
                      /\ i = 1 => trace[t][i][2] = NULL
                      /\ (i > 1 /\ trace[t][i - 1][1] = "destroy") => trace[t][i][2] = NULL
                      /\ (i > 1 /\ trace[t][i - 1][1] = "create") =>
                            trace[t][i][2] = trace[t][i - 1][2]
                      /\ (i < Len(trace[t]) /\ trace[t][i + 1][1] = "create") =>
                            /\ trace[t][i + 1][3] = "new"
                            /\ trace[t][i + 1][2] \in Addrs
            /\ (trace[t] # <<>> /\ trace[t][Len(trace[t])][1] = "destroy") =>
                  /\ heap = {}
                  /\ \A h \in Handles : globalInstance[h] = NULL
            /\ (trace[t] # <<>> /\ trace[t][Len(trace[t])] = <<"create", trace[t][Len(trace[t])][2], "new">>) =>
                  /\ globalInstance[MyPluginLib] = trace[t][Len(trace[t])][2]
                  /\ heap = {globalInstance[MyPluginLib]}

\* C21 witness: create, destroy, destroy again, and a create that made a new
\* instance.
C21_Witness ==
    \E t \in Threads :
        /\ Len(trace[t]) >= 4
        /\ trace[t][1][1] = "create"
        /\ trace[t][2][1] = "destroy" /\ trace[t][2][2] # NULL
        /\ trace[t][3] = <<"destroy", NULL>>
        /\ trace[t][4][1] = "create" /\ trace[t][4][3] = "new"

\* C22: when the two threads serialize their calls on the loader, a factory
\* is resolved only on the handle of a mapped library, the destroy factory is
\* invoked only on the live facade the loader caches, getPluginInstance()
\* returns null or a live facade, and no assertion failure or fault is
\* reached. (Without serializing, each of these is violated: C22_Witness.)
C22_SerializedIsSafe ==
    serialized =>
        /\ status = "running"
        /\ \A t \in Threads :
              /\ pc[t] = "getFunction_538" =>
                    /\ libHandle_[self(t)] \in Handles
                    /\ refCount[libHandle_[self(t)]] > 0
              /\ (pc[t] = "callFunction_496" /\ frame[t].fn = PLUGIN_FACTORY_DESTROY) =>
                    /\ frame[t].func # NoFunc
                    /\ plugin_[self(t)] # NULL
                    /\ globalInstance[frame[t].func[1]] = plugin_[self(t)]
                    /\ plugin_[self(t)] \in heap
              /\ (Done(t, "getPluginInstance") /\ frame[t].retP # NULL) =>
                    frame[t].retP \in heap

\* C22 witness: without serializing, getPluginInstance() returned a pointer
\* to a facade the other thread's unload() had destroyed.
C22_Witness ==
    /\ ~serialized
    /\ \E t, u \in Threads :
          /\ Done(t, "getPluginInstance")
          /\ frame[t].retP # NULL /\ frame[t].retP \notin heap
          /\ frame[u].op = "unload" /\ Has(u, CallDestroy)

\* handles a successful dlopen returned that no successful dlclose released
OpenHandles == refCount[MyPluginLib] + refCount[BrokenLib] + refCount[CreateOnlyLib]

\* C23 as claimed: while the loader exists, at most one handle is open and
\* not yet closed, and it is the handle the loader stores.
C23_NoHandleLost ==
    \A l \in Loaders :
        constructed[l] =>
            /\ OpenHandles <= 1
            /\ OpenHandles = 1 =>
                  /\ libHandle_[l] # NULL
                  /\ refCount[libHandle_[l]] = 1

\* C24: load() on an Active loader calls the destroy factory, then the OS
\* close of the old handle, then the OS open with the current name, each
\* once: every OS open of the operation comes after the destroy call and the
\* close; the old facade is deleted when load() returns; with an empty name
\* there is no OS open and load() returns false.
C24_ReloadOrder ==
    \A t \in Threads :
        (frame[t].op = "load" /\ WasActive(t)) =>
            /\ \A i \in 1..Len(trace[t]) :
                  /\ trace[t][i][1] = "dlopen" =>
                        /\ trace[t][i][2] = pre[t].name
                        /\ pre[t].plugin \notin heap
                        /\ \E j, k \in 1..(i - 1) :
                              /\ j < k
                              /\ trace[t][j] = CallDestroy
                              /\ trace[t][k] \in {CloseOk, CloseFail}
                  /\ trace[t][i] \in {CloseOk, CloseFail} =>
                        \E j \in 1..(i - 1) : trace[t][j] = CallDestroy
            /\ pc[t] = "done" =>
                  /\ Count(t, CallDestroy) = 1
                  /\ Count(t, CloseOk) + Count(t, CloseFail) = 1
                  /\ pre[t].plugin \notin heap
                  /\ Cardinality({i \in 1..Len(trace[t]) : trace[t][i][1] = "dlopen"})
                        = IF pre[t].name = "" THEN 0 ELSE 1
                  /\ pre[t].name = "" => ~frame[t].retB

\* C24 witness: load() on an Active loader returned after reopening the
\* library.
C24_Witness ==
    \E t \in Threads :
        /\ Done(t, "load") /\ WasActive(t)
        /\ Has(t, CallDestroy) /\ Has(t, CloseOk) /\ Has(t, OpenOk(pre[t].name))

\* the plugin instance of the library loader l has mapped, NULL when none
Singleton(l) == IF libHandle_[l] = NULL THEN NULL ELSE globalInstance[libHandle_[l]]

\* C25: with one loader, in every state either the cached pointer is non-null
\* and is the one live facade, the singleton of the mapped library, or it is
\* null and no facade is alive; except inside unload() between the return of
\* the destroy factory and the reset of the pointer, and inside
\* getPluginInstance() between the return of the create factory and the
\* store of the pointer. Between operations the equivalence always holds.
C25_CacheMatchesSingleton ==
    \A l \in Loaders :
        constructed[l] =>
            \/ /\ plugin_[l] # NULL
               /\ Singleton(l) = plugin_[l]
               /\ heap = {plugin_[l]}
            \/ /\ plugin_[l] = NULL
               /\ heap = {}
               /\ \A h \in Handles : globalInstance[h] = NULL
            \/ \E t \in Threads :
                  /\ self(t) = l /\ pc[t] = "unload_403"
                  /\ plugin_[l] # NULL /\ heap = {}
                  /\ \A h \in Handles : globalInstance[h] = NULL
            \/ \E t \in Threads :
                  /\ self(t) = l /\ pc[t] = "getPluginInstance_432"
                  /\ plugin_[l] = NULL
                  /\ frame[t].result # NULL
                  /\ Singleton(l) = frame[t].result
                  /\ heap = {frame[t].result}

\* C25 witness: between operations the loader caches the live singleton of
\* a library it had reloaded.
C25_Witness ==
    \E t \in Threads :
        /\ pc[t] = "idle" /\ prev[t].op = "getPluginInstance" /\ prev[t].trip = 2
        /\ \E l \in Loaders :
              /\ constructed[l] /\ prev[t].self = l
              /\ plugin_[l] = prev[t].retP /\ heap = {plugin_[l]}
              /\ refCount[libHandle_[l]] = 2

\* C26 as claimed: with two loaders on one library, a non-null pointer a
\* loader caches refers to a live facade whenever no operation of that loader
\* is in progress, whatever the other loader did.
C26_OtherLoaderKeepsFacade ==
    \A l \in Loaders :
        (/\ constructed[l] /\ plugin_[l] # NULL
         /\ \A t \in Threads : frame[t].self = l => pc[t] = "done") =>
            plugin_[l] \in heap

\* facades the loader of thread t's operation has had created and not yet
\* destroyed: the one it cached when the operation began, plus the create
\* calls, minus the destroy calls the operation has made so far
Owed(t) ==
    (IF pre[t].plugin # NULL THEN 1 ELSE 0) + Count(t, CallCreate) - Count(t, CallDestroy)

\* C27: the destroy factory is invoked only in the Active state; at every
\* point of every operation the destroy calls made do not exceed the facade
\* cached at its start plus the create calls made, the difference being 0 or
\* 1; and when the operation returns the difference is 1 exactly when the
\* cached pointer is non-null. (Summed over a sequence of operations from
\* construction: destroy calls never exceed create calls, and the two are
\* equal whenever the cached pointer is null.)
C27_DestroyOnlyCached ==
    \A t \in Threads :
        /\ Owed(t) \in {0, 1}
        /\ (/\ pc[t] = "callFunction_496" /\ frame[t].fn = PLUGIN_FACTORY_DESTROY
            /\ frame[t].func # NoFunc) =>
              /\ Active(self(t))
              /\ Owed(t) = 1
        /\ (pc[t] \in {"idle", "done"} /\ frame[t].op # "") =>
              Owed(t) = (IF plugin_[self(t)] # NULL THEN 1 ELSE 0)
        /\ \A i \in 1..Len(trace[t]) :
              trace[t][i] = CallDestroy =>
                  \/ pre[t].plugin # NULL /\ \A j \in 1..(i - 1) : trace[t][j] # CallDestroy
                  \/ \E j \in 1..(i - 1) :
                        /\ trace[t][j] = CallCreate
                        /\ \A k \in (j + 1)..(i - 1) : trace[t][k] # CallDestroy

\* C27 witness: an unload() of an Active loader returned after one destroy
\* call and a failed close, the operation before it having created the facade.
C27_Witness ==
    \E t \in Threads :
        /\ Done(t, "unload") /\ WasActive(t)
        /\ Count(t, CallDestroy) = 1 /\ Has(t, CloseFail)
        /\ prev[t].op = "getPluginInstance" /\ prev[t].retP = pre[t].plugin
        /\ plugin_[self(t)] = NULL

\* C28: an unload() whose OS close failed returns false with the handle kept
\* and the facade pointer null; the unload() made next finds that handle and
\* no facade, resolves and calls no factory, makes exactly one OS close, and
\* returns true with the loader Unloaded and the reference released when the
\* close succeeds, false with the handle kept when it fails again; no facade
\* is alive at any point of it.
C28_UnloadRetries ==
    \A t \in Threads :
        /\ (Done(t, "unload") /\ Has(t, CloseFail)) =>
              /\ ~frame[t].retB
              /\ libHandle_[self(t)] = pre[t].handle
              /\ plugin_[self(t)] = NULL
        /\ (/\ frame[t].op = "unload"
            /\ prev[t].op = "unload" /\ prev[t].self = self(t)
            /\ prev[t].loaded /\ ~prev[t].retB) =>
              /\ WasLoaded(t)
              /\ pre[t].instance = NULL
              /\ heap = {}
              /\ status = "running"
              /\ \A i \in 1..Len(trace[t]) :
                    trace[t][i][1] \notin {"dlsym", "call", "dlopen"}
              /\ pc[t] = "done" =>
                    /\ Count(t, CloseOk) + Count(t, CloseFail) = 1
                    /\ Has(t, CloseOk) =>
                          /\ frame[t].retB
                          /\ Unloaded(self(t))
                          /\ refCount[pre[t].handle] = pre[t].refs - 1
                    /\ Has(t, CloseFail) =>
                          /\ ~frame[t].retB
                          /\ libHandle_[self(t)] = pre[t].handle
                          /\ refCount[pre[t].handle] = pre[t].refs

\* C28 witness: the unload() after a failed unload() returned true.
C28_Witness ==
    \E t \in Threads :
        /\ Done(t, "unload") /\ frame[t].retB /\ Has(t, CloseOk)
        /\ prev[t].op = "unload" /\ prev[t].self = self(t)
        /\ prev[t].loaded /\ ~prev[t].retB

====
